---- MODULE Spec2Model ----
(***************************************************************************)
(* The size/quality targeting engine of src/components/converter.tsx:      *)
(* findQualityForTargetKB, upscaleToTargetWithFixedQuality,                *)
(* convertToTargetSize, fitToSizeWithFixedQuality and the mode dispatch of *)
(* convertOne, over an opaque encoder (canvas.toBlob).                     *)
(*                                                                         *)
(* Numbers.  Qualities and scales are JavaScript numbers in the source.    *)
(* Here they are exact rationals in fixed point: 1.0 is Unit = 1000*4096,  *)
(* so every constant of the source (0.01, 0.999, 0.02, 0.005, 0.05, ...)   *)
(* is a multiple of 4096 and the midpoint of each of the at most twelve    *)
(* halvings of a search is an integer.  Floating-point rounding of the     *)
(* source's comparisons is not modelled.  Blob sizes are bytes.            *)
(*                                                                         *)
(* Every `await webpAtQuality(...)` of the source is one step of the       *)
(* model: the step holds the loop iteration (or the statements) around it. *)
(***************************************************************************)
EXTENDS Integers, Sequences, FiniteSets, TLC

\* ------------------------------------------------------------------------
\* Bounds of the model and the inputs drawn in Init
\* ------------------------------------------------------------------------

\* Blob sizes the encoder can produce: SizeStep, 2*SizeStep, ... (bytes).
MaxSizeSteps == 3

SizeStep == 3 * 512

Sizes == {k * SizeStep : k \in 1..MaxSizeSteps}

\* Values of the settings drawn in Init.
MaxSizeKBChoices == {0, 4}

QualityPctChoices == {1, 90, 100}

Modes == {"auto", "quality", "size", "both"}

\* ------------------------------------------------------------------------
\* Fixed point
\* ------------------------------------------------------------------------
Unit == 1000 * 4096

\* n thousandths: Milli(999) is 0.999.
Milli(n) == n * 4096

Min(a, b) == IF a < b THEN a ELSE b

Max(a, b) == IF a > b THEN a ELSE b

Abs(a) == IF a < 0 THEN 0 - a ELSE a

\* Math.round(x * 100) of a fixed-point x >= 0.
RoundPct(x) == (x + Unit \div 200) \div (Unit \div 100)

\* kb <= targetKB, with kb = size / 1024.
FitsKB(size, targetKB) == size <= 1024 * targetKB

\* ------------------------------------------------------------------------
\* Program constants
\* ------------------------------------------------------------------------

\* findQualityForTargetKB: default minQ, maxQ, iterations; step; convergence.
MinQ == Milli(10)

MaxQ == Milli(999)

Iterations == 12

QStep == Milli(20)

QEps == Milli(5)

\* upscaleToTargetWithFixedQuality: maxScale, iterations, tolKB, step, convergence.
MaxScale == 6 * Unit

UpIterations == 12

TolKB == 2

ScaleStep == Milli(50)

ScaleEps == Milli(20)

\* The ladder in ascending order.
scales_Ascending == << Milli(100), Milli(120), Milli(150), Milli(200),
                       Milli(250), Milli(300), Milli(350), Milli(400),
                       Milli(450), Milli(500), Milli(550), Milli(600),
                       Milli(650), Milli(700), Milli(750), Milli(800),
                       Milli(850), Milli(900), Milli(950) >>

\* convertToTargetSize: the downscale ladder and the fallback quality.
scales == << Milli(950), Milli(900), Milli(850), Milli(800), Milli(750),
             Milli(700), Milli(650), Milli(600), Milli(550), Milli(500),
             Milli(450), Milli(400), Milli(350), Milli(300), Milli(250),
             Milli(200), Milli(150), Milli(120), Milli(100) >>

fallbackQ == Milli(350)

\* fitToSizeWithFixedQuality: search bounds, iterations, coarse sweep.
FitMinScale == Milli(100)

FitIterations == 8

fitScales == << Milli(250), Milli(200), Milli(150), Milli(120), Milli(100) >>

\* convertOne: the quality of mode "auto".
AutoQ == Milli(900)

\* ------------------------------------------------------------------------
\* Values
\* ------------------------------------------------------------------------

\* A Blob is [size, q, scale]: its byte size and, for the claims, the quality
\* and the canvas scale of the toBlob call that made it.  NoBlob is null.
NoBlob == [size |-> 0, q |-> 0, scale |-> 0]

Blob(size, q, scale) == [size |-> size, q |-> q, scale |-> scale]

\* { blob, q, scale } of the source ({ blob, q } has scale 0); Null is null.
Null == [blob |-> NoBlob, q |-> 0, scale |-> 0]

Res(blob, q, scale) == [blob |-> blob, q |-> q, scale |-> scale]

\* ------------------------------------------------------------------------
\* State
\* ------------------------------------------------------------------------
VARIABLES
  mode, qualityPct, maxSizeKB, allowUpscale,  \* useState settings
  status, webpSize, usedQualityPct, usedScalePct, error,  \* the Item
  encKind, encFloor, encMemo,                 \* the encoder (environment)
  pc, caller,                                 \* position; who awaits the search
  canvas, target, fixedQ, allowUp,            \* arguments of the running routine
  low, high, i, best,                         \* locals of the running search
  ret, exn,                                   \* value returned / Error thrown
  chosenQ, chosenScale, blob,                 \* convertOne locals
  direct, bestOverall, sIdx,                  \* convertToTargetSize locals
  first, fallback,                            \* fitToSizeWithFixedQuality locals
  probeCount, lastProbe, anyFit, encFailed,   \* history: encode calls made
  minSize, minScale, hits, retVia,            \* history: what was probed
  items, urls, calls, started, added          \* the list, URLs, calls in flight

vars == << mode, qualityPct, maxSizeKB, allowUpscale,
           status, webpSize, usedQualityPct, usedScalePct, error,
           encKind, encFloor, encMemo, pc, caller,
           canvas, target, fixedQ, allowUp, low, high, i, best, ret, exn,
           chosenQ, chosenScale, blob,
           direct, bestOverall, sIdx, first, fallback,
           probeCount, lastProbe, anyFit, encFailed, minSize, minScale, hits,
           retVia, items, urls, calls, started, added >>

\* The item list of the page, the result object URLs created and not revoked,
\* the convertOne calls in flight, and how many calls and items there were.
uiVars == << items, urls, calls, started, added >>

settingVars == << mode, qualityPct, maxSizeKB, allowUpscale >>

\* The state of the one conversion followed step by step.
engineVars == << status, webpSize, usedQualityPct, usedScalePct, error,
                 encKind, encFloor, encMemo, pc, caller,
                 canvas, target, fixedQ, allowUp, low, high, i, best, ret,
                 exn, chosenQ, chosenScale, blob,
                 direct, bestOverall, sIdx, first, fallback,
                 probeCount, lastProbe, anyFit, encFailed, minSize, minScale,
                 hits, retVia >>

itemVars == << status, webpSize, usedQualityPct, usedScalePct, error >>

ctsVars == << direct, bestOverall, sIdx >>

fitVars == << first, fallback >>

searchVars == << low, high, i, best >>

oneVars == << chosenQ, chosenScale, blob >>

argVars == << target, fixedQ, allowUp >>

encVars == << encKind, encFloor >>

\* ------------------------------------------------------------------------
\* The encoder: webpAtQuality(canvas, q), i.e. canvas.toBlob.  It is opaque
\* to the program, so its result is chosen at each call, within its kind:
\*   "free"      any size, or null, at every call;
\*   "banded"    any size, or null, but the same result for the same canvas
\*               and the same quality band (a deterministic encoder whose
\*               size is piecewise constant in quality);
\*   "monotone"  banded, never null, and non-decreasing in quality.
\* encFloor is the least size the encoder produces for the image: its size
\* at quality 0.01 on the smallest canvas in play.  encMemo holds the results
\* sampled so far for the canvas made last.
\* ------------------------------------------------------------------------
Fail == 0

Unknown == 0 - 1

QCuts == << Milli(20), Milli(300), Milli(400), Milli(960) >>

Bands == 0..Len(QCuts)

Band(q) == Cardinality({k \in 1..Len(QCuts) : QCuts[k] <= q})

FreshMemo == [b \in Bands |-> Unknown]

EncKinds == {"free", "banded", "monotone"}

\* The results a toBlob call at quality q may give on a canvas with memo m.
Outcomes(m, q) ==
  LET above == {s \in Sizes : s >= encFloor}
      b == Band(q)
  IN  IF encKind = "free" THEN above \cup {Fail}
      ELSE IF m[b] # Unknown THEN {m[b]}
      ELSE IF encKind = "banded" THEN above \cup {Fail}
      ELSE {s \in above :
              \A c \in Bands : m[c] # Unknown =>
                 /\ (c < b => m[c] <= s)
                 /\ (c > b => s <= m[c])}

Remember(m, q, out) ==
  IF encKind = "free" THEN m ELSE [m EXCEPT ![Band(q)] = out]

\* getContext("2d") of a canvas just created: may be null, except under the
\* well-behaved "monotone" platform.
CtxOutcomes == IF encKind = "monotone" THEN {TRUE} ELSE {TRUE, FALSE}

\* History of the encode calls: how many (counted up to ProbeCap), the last
\* one, whether one gave null, the least size and the least canvas scale.
ProbeCap == 2

Probed(q, scale, out) ==
  /\ probeCount' = Min(probeCount + 1, ProbeCap)
  /\ lastProbe' = [q |-> q, scale |-> scale]
  /\ encFailed' = (encFailed \/ out = Fail)
  /\ minSize' = IF out = Fail THEN minSize
                ELSE IF minSize = 0 THEN out ELSE Min(minSize, out)
  /\ minScale' = Min(minScale, scale)

histVars == << probeCount, lastProbe, encFailed, minSize, minScale >>

\* ------------------------------------------------------------------------
\* findQualityForTargetKB(canvas, targetKB): one loop iteration per step
\* ------------------------------------------------------------------------

\* FQStep with the cap check lost: every blob becomes the best.
FQStep_KeepsAny(lo, hi, bst, mid, b, targetKB) ==
  IF FitsKB(b.size, targetKB)
  THEN [low |-> Min(Milli(999), mid + QStep), high |-> hi,
        best |-> Res(b, mid, 0)]
  ELSE [low |-> lo, high |-> Max(MinQ, mid - QStep), best |-> Res(b, mid, 0)]

\* Lines 97-105: the bounds and the best after a probe at mid gave a blob.
FQStep(lo, hi, bst, mid, b, targetKB) ==
  IF FitsKB(b.size, targetKB)
  THEN [low |-> Min(Milli(999), mid + QStep), high |-> hi,
        best |-> Res(b, mid, 0)]
  ELSE [low |-> lo, high |-> Max(MinQ, mid - QStep), best |-> bst]

\* The call: low = minQ, high = maxQ, best = null; k is the pc of the caller's
\* continuation.
FQCall(cv, k) ==
  /\ pc' = "fq"
  /\ caller' = k
  /\ canvas' = cv
  /\ low' = MinQ
  /\ high' = MaxQ
  /\ i' = 0
  /\ best' = Null
  /\ anyFit' = FALSE

\* A search that returned: its locals are gone.
Popped ==
  /\ low' = 0
  /\ high' = 0
  /\ i' = 0
  /\ best' = Null

FQIter ==
  /\ pc = "fq"
  /\ i < Iterations
  /\ LET mid == (low + high) \div 2 IN
     \E out \in Outcomes(encMemo, mid) :
       /\ Probed(mid, canvas, out)
       /\ encMemo' = Remember(encMemo, mid, out)
       /\ IF out = Fail
          THEN \* if (!blob) break
               /\ pc' = caller
               /\ ret' = best
               /\ Popped
               /\ UNCHANGED anyFit
          ELSE LET n == FQStep(low, high, best, mid, Blob(out, mid, canvas), target)
                   stop == Abs(n.low - n.high) < QEps \/ i + 1 >= Iterations
               IN  /\ anyFit' = (anyFit \/ FitsKB(out, target))
                   /\ IF stop
                      THEN /\ pc' = caller
                           /\ ret' = n.best
                           /\ Popped
                      ELSE /\ pc' = "fq"
                           /\ ret' = ret
                           /\ low' = n.low
                           /\ high' = n.high
                           /\ best' = n.best
                           /\ i' = i + 1
  /\ UNCHANGED << uiVars, settingVars, itemVars, encVars, caller, canvas, argVars,
                  exn, oneVars, ctsVars, fitVars, hits, retVia >>

\* ------------------------------------------------------------------------
\* Returning to convertOne, and throwing into its catch
\* ------------------------------------------------------------------------
Return(r, via) ==
  /\ pc' = "one_ret"
  /\ ret' = r
  /\ retVia' = via
  /\ exn' = exn

Throw(msg) ==
  /\ pc' = "one_catch"
  /\ exn' = msg
  /\ UNCHANGED << ret, retVia >>

\* ------------------------------------------------------------------------
\* upscaleToTargetWithFixedQuality(srcCanvas, targetKB, fixedQ01)
\* ------------------------------------------------------------------------

\* UpStep with the cap check lost: every blob becomes the best.
UpStep_KeepsAny(lo, hi, bst, mid, b, targetKB, q) ==
  LET fits == FitsKB(b.size, targetKB)
      near == Abs(1024 * targetKB - b.size) <= 1024 * TolKB
      lo2 == IF fits /\ ~near THEN Min(MaxScale, mid + ScaleStep) ELSE lo
      hi2 == IF fits THEN hi ELSE Max(Unit, mid - ScaleStep)
  IN  [low |-> lo2, high |-> hi2,
       best |-> Res(b, q, mid),
       brk |-> (fits /\ near) \/ hi2 - lo2 < ScaleEps]

\* Lines 143-152: bounds, best and whether the loop breaks, after a probe of
\* the canvas scaled by mid gave a blob.
UpStep(lo, hi, bst, mid, b, targetKB, q) ==
  LET fits == FitsKB(b.size, targetKB)
      near == Abs(1024 * targetKB - b.size) <= 1024 * TolKB
      lo2 == IF fits /\ ~near THEN Min(MaxScale, mid + ScaleStep) ELSE lo
      hi2 == IF fits THEN hi ELSE Max(Unit, mid - ScaleStep)
  IN  [low |-> lo2, high |-> hi2,
       best |-> IF fits THEN Res(b, q, mid) ELSE bst,
       brk |-> (fits /\ near) \/ hi2 - lo2 < ScaleEps]

UpCall(q, k) ==
  /\ pc' = "up"
  /\ caller' = k
  /\ fixedQ' = q
  /\ low' = Unit
  /\ high' = MaxScale
  /\ i' = 0
  /\ best' = Null

\* One iteration of the loop of lines 127-153.
UpIter ==
  /\ pc = "up"
  /\ i < UpIterations
  /\ LET mid == (low + high) \div 2 IN
     \E ctx \in CtxOutcomes :
       IF ~ctx
       THEN \* if (!sctx) break
            /\ pc' = caller
            /\ ret' = best
            /\ Popped
            /\ UNCHANGED << canvas, encMemo, histVars >>
       ELSE \E out \in Outcomes(FreshMemo, fixedQ) :
            /\ Probed(fixedQ, mid, out)
            /\ canvas' = mid
            /\ encMemo' = Remember(FreshMemo, fixedQ, out)
            /\ IF out = Fail
               THEN /\ pc' = caller
                    /\ ret' = best
                    /\ Popped
               ELSE LET n == UpStep(low, high, best, mid,
                                    Blob(out, fixedQ, mid), target, fixedQ)
                        stop == n.brk \/ i + 1 >= UpIterations
                    IN  IF stop
                        THEN /\ pc' = caller
                             /\ ret' = n.best
                             /\ Popped
                        ELSE /\ pc' = "up"
                             /\ ret' = ret
                             /\ low' = n.low
                             /\ high' = n.high
                             /\ best' = n.best
                             /\ i' = i + 1
  /\ UNCHANGED << uiVars, settingVars, itemVars, encVars, caller, argVars, exn,
                  oneVars, ctsVars, fitVars, anyFit, hits, retVia >>

\* ------------------------------------------------------------------------
\* convertToTargetSize(srcCanvas, targetKB, allowUp)
\* ------------------------------------------------------------------------

\* WantsUpscale with the allowUp test lost.
WantsUpscale_IgnoresSwitch(up, d, targetKB) ==
  /\ 1024 * targetKB - d.blob.size > 1024 * TolKB
  /\ d.q >= Milli(950)

\* Line 170: upscale after a successful quality search?
WantsUpscale(up, d, targetKB) ==
  /\ up
  /\ 1024 * targetKB - d.blob.size > 1024 * TolKB
  /\ d.q >= Milli(950)

\* Lines 168-179 and the entry of the ladder: after the quality search on the
\* original canvas returned.
CTSDirect ==
  /\ pc = "cts_direct"
  /\ direct' = ret
  /\ IF ret # Null
     THEN IF WantsUpscale(allowUp, ret, target)
          THEN /\ UpCall(Min(Milli(999), Max(Milli(950), ret.q)), "cts_up")
               /\ UNCHANGED << ret, exn, retVia, target, allowUp,
                               bestOverall, sIdx >>
          ELSE /\ Return(Res(ret.blob, ret.q, Unit), "direct")
               /\ UNCHANGED << caller, argVars, searchVars, bestOverall, sIdx >>
     ELSE /\ pc' = "cts_scale"
          /\ bestOverall' = Null
          /\ sIdx' = 1
          /\ UNCHANGED << ret, exn, retVia, caller, argVars, searchVars >>
  /\ UNCHANGED << uiVars, settingVars, itemVars, encVars, encMemo, canvas, oneVars,
                  fitVars, histVars, anyFit, hits >>

\* Lines 176-178: after the upscale search returned.
CTSUp ==
  /\ pc = "cts_up"
  /\ IF ret # Null
     THEN Return(ret, "up")
     ELSE Return(Res(direct.blob, direct.q, Unit), "direct")
  /\ UNCHANGED << uiVars, settingVars, itemVars, encVars, encMemo, caller, canvas,
                  argVars, searchVars, oneVars, ctsVars, fitVars, histVars,
                  anyFit, hits >>

\* The ladder scale after index k, or the end of the ladder.
NextScale(k) == IF k < Len(scales) THEN "cts_scale" ELSE "cts_end"

\* Lines 186-197: the canvas of ladder scale s and the quality search on it.
CTSScale ==
  /\ pc = "cts_scale"
  /\ \E ctx \in CtxOutcomes :
       IF ~ctx
       THEN \* if (!sctx) continue
            /\ pc' = NextScale(sIdx)
            /\ sIdx' = sIdx + 1
            /\ UNCHANGED << caller, canvas, encMemo, searchVars, anyFit >>
       ELSE /\ FQCall(scales[sIdx], "cts_attempt")
            /\ encMemo' = FreshMemo
            /\ sIdx' = sIdx
  /\ UNCHANGED << uiVars, settingVars, itemVars, encVars, argVars, ret, exn, oneVars,
                  direct, bestOverall, fitVars, histVars, hits, retVia >>

\* Line 198: after the quality search at ladder scale s returned.
CTSAttempt ==
  /\ pc = "cts_attempt"
  /\ IF ret # Null
     THEN /\ Return(Res(ret.blob, ret.q, scales[sIdx]), "attempt")
          /\ hits' = hits \cup {scales[sIdx]}
     ELSE /\ pc' = "cts_fb"
          /\ UNCHANGED << ret, exn, retVia, hits >>
  /\ UNCHANGED << uiVars, settingVars, itemVars, encVars, encMemo, caller, canvas,
                  argVars, searchVars, oneVars, ctsVars, fitVars, histVars,
                  anyFit >>

\* Smaller recording the ladder's fallback quality instead of the one passed.
Smaller_FallbackQ(bst, b, q, s) ==
  IF bst = Null \/ b.size < bst.blob.size THEN Res(b, fallbackQ, s) ELSE bst

\* Smaller keeping the scale of the fallback it replaces.
Smaller_StaleScale(bst, b, q, s) ==
  IF bst = Null THEN Res(b, q, s)
  ELSE IF b.size < bst.blob.size THEN Res(b, q, bst.scale) ELSE bst

\* Lines 204-206: the smaller of the fallback so far and a new blob.
Smaller(bst, b, q, s) ==
  IF bst = Null \/ b.size < bst.blob.size THEN Res(b, q, s) ELSE bst

\* Lines 201-207: the fallback probe at ladder scale s, then the next scale
\* (the scaled canvas is dropped with the iteration).
CTSFallback ==
  /\ pc = "cts_fb"
  /\ \E out \in Outcomes(encMemo, fallbackQ) :
       /\ Probed(fallbackQ, canvas, out)
       /\ encMemo' = FreshMemo
       /\ bestOverall' = IF out = Fail THEN bestOverall
                         ELSE Smaller(bestOverall,
                                      Blob(out, fallbackQ, canvas),
                                      fallbackQ, scales[sIdx])
  /\ pc' = NextScale(sIdx)
  /\ sIdx' = sIdx + 1
  /\ UNCHANGED << uiVars, settingVars, itemVars, encVars, caller, canvas, argVars,
                  searchVars, ret, exn, oneVars, direct, fitVars, anyFit,
                  hits, retVia >>

\* CTSEnd without the last resort: it throws when the ladder kept nothing.
CTSEnd_NoLastResort ==
  /\ pc = "cts_end"
  /\ IF bestOverall # Null
     THEN Return(bestOverall, "fallback")
     ELSE Throw("Failed to create WEBP")
  /\ UNCHANGED << uiVars, settingVars, itemVars, encVars, encMemo, caller, canvas,
                  argVars, searchVars, oneVars, ctsVars, fitVars, histVars,
                  anyFit, hits >>

\* Lines 210-215: after the ladder.
CTSEnd ==
  /\ pc = "cts_end"
  /\ IF bestOverall # Null
     THEN /\ Return(bestOverall, "fallback")
          /\ UNCHANGED << canvas, encMemo, histVars >>
     ELSE \E out \in Outcomes(FreshMemo, fallbackQ) :
            /\ Probed(fallbackQ, Unit, out)
            /\ canvas' = Unit
            /\ encMemo' = Remember(FreshMemo, fallbackQ, out)
            /\ IF out = Fail
               THEN Throw("Failed to create WEBP")
               ELSE Return(Res(Blob(out, fallbackQ, Unit), fallbackQ, Unit),
                           "last")
  /\ UNCHANGED << uiVars, settingVars, itemVars, encVars, caller, argVars, searchVars,
                  oneVars, ctsVars, fitVars, anyFit, hits >>

\* ------------------------------------------------------------------------
\* fitToSizeWithFixedQuality(srcCanvas, targetKB, fixedQ01, allowUp)
\* ------------------------------------------------------------------------

\* Lines 228-241: the first probe, on the original canvas.
FitFirst ==
  /\ pc = "fit_first"
  /\ \E out \in Outcomes(FreshMemo, fixedQ) :
       /\ Probed(fixedQ, Unit, out)
       /\ canvas' = Unit
       /\ encMemo' = Remember(FreshMemo, fixedQ, out)
       /\ IF out = Fail
          THEN /\ Throw("Failed to create WEBP")
               /\ UNCHANGED << first, caller, argVars, searchVars >>
          ELSE /\ first' = Blob(out, fixedQ, Unit)
               /\ IF FitsKB(out, target)
                  THEN IF allowUp
                       THEN /\ UpCall(fixedQ, "fit_up")
                            /\ UNCHANGED << ret, exn, retVia, target, allowUp >>
                       ELSE /\ Return(Res(Blob(out, fixedQ, Unit), fixedQ, Unit),
                                      "first")
                            /\ UNCHANGED << caller, argVars, searchVars >>
                  ELSE /\ pc' = "fit_search"
                       /\ low' = FitMinScale
                       /\ high' = Unit
                       /\ best' = Null
                       /\ i' = 0
                       /\ UNCHANGED << ret, exn, retVia, caller, argVars >>
  /\ UNCHANGED << uiVars, settingVars, itemVars, encVars, oneVars, ctsVars, fallback,
                  anyFit, hits >>

\* Lines 233-236: after the upscale search returned.
FitUp ==
  /\ pc = "fit_up"
  /\ IF ret # Null
     THEN Return(ret, "up")
     ELSE Return(Res(first, fixedQ, Unit), "first")
  /\ UNCHANGED << uiVars, settingVars, itemVars, encVars, encMemo, caller, canvas,
                  argVars, searchVars, oneVars, ctsVars, fitVars, histVars,
                  anyFit, hits >>

\* Lines 255-264: bounds, best and whether the loop breaks, after a probe of
\* the canvas scaled by mid gave a blob.
FitStep(lo, hi, bst, mid, b, targetKB, q) ==
  LET fits == FitsKB(b.size, targetKB)
      lo2 == IF fits THEN Min(Milli(999), mid + ScaleStep) ELSE lo
      hi2 == IF fits THEN hi ELSE Max(FitMinScale, mid - ScaleStep)
  IN  [low |-> lo2, high |-> hi2,
       best |-> IF fits THEN Res(b, q, mid) ELSE bst,
       brk |-> Abs(hi2 - lo2) < ScaleEps]

\* One iteration of the loop of lines 243-265.
FitIter ==
  /\ pc = "fit_search"
  /\ i < FitIterations
  /\ LET mid == (low + high) \div 2 IN
     \E ctx \in CtxOutcomes :
       IF ~ctx
       THEN /\ pc' = "fit_after"
            /\ UNCHANGED << searchVars, canvas, encMemo, histVars >>
       ELSE \E out \in Outcomes(FreshMemo, fixedQ) :
            /\ Probed(fixedQ, mid, out)
            /\ canvas' = mid
            /\ encMemo' = Remember(FreshMemo, fixedQ, out)
            /\ IF out = Fail
               THEN /\ pc' = "fit_after"
                    /\ UNCHANGED searchVars
               ELSE LET n == FitStep(low, high, best, mid,
                                     Blob(out, fixedQ, mid), target, fixedQ)
                        stop == n.brk \/ i + 1 >= FitIterations
                    IN  /\ low' = n.low
                        /\ high' = n.high
                        /\ best' = n.best
                        /\ i' = IF n.brk THEN i ELSE i + 1
                        /\ pc' = IF stop THEN "fit_after" ELSE "fit_search"
  /\ UNCHANGED << uiVars, settingVars, itemVars, encVars, caller, argVars, ret, exn,
                  oneVars, ctsVars, fitVars, anyFit, hits, retVia >>

\* Lines 267-270: after the search.
FitAfter ==
  /\ pc = "fit_after"
  /\ IF best # Null
     THEN /\ Return(best, "search")
          /\ UNCHANGED << fallback, sIdx >>
     ELSE /\ pc' = "fit_fb"
          /\ fallback' = Null
          /\ sIdx' = 1
          /\ UNCHANGED << ret, exn, retVia >>
  /\ UNCHANGED << uiVars, settingVars, itemVars, encVars, encMemo, caller, canvas,
                  argVars, searchVars, oneVars, direct, bestOverall, first,
                  histVars, anyFit, hits >>

\* The sweep scale after index k, or the end of the sweep.
NextFitScale(k) == IF k < Len(fitScales) THEN "fit_fb" ELSE "fit_end"

\* Lines 271-284: one scale of the coarse sweep.
FitFallback ==
  /\ pc = "fit_fb"
  /\ LET s == fitScales[sIdx] IN
     \E ctx \in CtxOutcomes :
       IF ~ctx
       THEN UNCHANGED << fallback, canvas, encMemo, histVars >>
       ELSE \E out \in Outcomes(FreshMemo, fixedQ) :
            /\ Probed(fixedQ, s, out)
            /\ canvas' = s
            /\ encMemo' = Remember(FreshMemo, fixedQ, out)
            /\ fallback' = IF out = Fail THEN fallback
                           ELSE Smaller(fallback, Blob(out, fixedQ, s),
                                        fixedQ, s)
  /\ pc' = NextFitScale(sIdx)
  /\ sIdx' = sIdx + 1
  /\ UNCHANGED << uiVars, settingVars, itemVars, encVars, caller, argVars,
                  searchVars, ret, exn, oneVars, direct, bestOverall, first,
                  anyFit, hits, retVia >>

\* Lines 285-288: after the sweep.
FitEnd ==
  /\ pc = "fit_end"
  /\ IF fallback # Null
     THEN Return(fallback, "fallback")
     ELSE Return(Res(first, fixedQ, Unit), "last")
  /\ UNCHANGED << uiVars, settingVars, itemVars, encVars, encMemo, caller, canvas,
                  argVars, searchVars, oneVars, ctsVars, fitVars, histVars,
                  anyFit, hits >>

\* ------------------------------------------------------------------------
\* convertOne(item)
\* ------------------------------------------------------------------------

\* ClampQ with the lower clamp at 0.1.
ClampQ_Floor10(pct) == Min(Max(pct * (Unit \div 100), Milli(100)), Unit)

\* Math.min(Math.max(qualityPct / 100, 0.01), 1)
ClampQ(pct) == Min(Max(pct * (Unit \div 100), Milli(10)), Unit)

\* BothAllowUp passing the user's switch on.
BothAllowUp_UsesSwitch(up) == up

\* Line 331: the allowUp argument of mode "both", whatever the switch is.
BothAllowUp(up) == TRUE

\* Line 309: the item is marked and loadImage is awaited.
ConvertOne ==
  /\ pc = "idle"
  /\ status' = "converting"
  /\ error' = ""
  /\ pc' = "load"
  /\ UNCHANGED << uiVars, settingVars, webpSize, usedQualityPct, usedScalePct,
                  encVars, encMemo, caller, canvas, argVars, searchVars,
                  ret, exn, oneVars, ctsVars, fitVars, histVars, anyFit,
                  hits, retVia >>

\* Lines 310-341: the image loaded (or not), the canvas, the mode dispatch up
\* to its first await.
ImageLoaded ==
  /\ pc = "load"
  /\ \E loaded \in CtxOutcomes, ctx \in CtxOutcomes :
       IF ~loaded
       THEN /\ Throw("Failed to load image")
            /\ UNCHANGED << caller, canvas, argVars, searchVars, oneVars,
                            anyFit >>
       ELSE IF ~ctx
       THEN /\ Throw("Unable to get canvas context")
            /\ UNCHANGED << caller, canvas, argVars, searchVars, oneVars,
                            anyFit >>
       ELSE /\ chosenScale' = Unit
            /\ blob' = NoBlob
            /\ CASE mode = "auto" ->
                      /\ chosenQ' = AutoQ
                      /\ pc' = "one_enc"
                      /\ canvas' = Unit
                      /\ UNCHANGED << caller, argVars, searchVars, anyFit >>
                 [] mode = "quality" ->
                      /\ chosenQ' = ClampQ(qualityPct)
                      /\ pc' = "one_enc"
                      /\ canvas' = Unit
                      /\ UNCHANGED << caller, argVars, searchVars, anyFit >>
                 [] mode = "both" ->
                      /\ chosenQ' = ClampQ(qualityPct)
                      /\ target' = Max(1, maxSizeKB)
                      /\ fixedQ' = ClampQ(qualityPct)
                      /\ allowUp' = BothAllowUp(allowUpscale)
                      /\ pc' = "fit_first"
                      /\ canvas' = Unit
                      /\ UNCHANGED << caller, searchVars, anyFit >>
                 [] mode = "size" ->
                      /\ chosenQ' = AutoQ
                      /\ target' = Max(1, maxSizeKB)
                      /\ allowUp' = allowUpscale
                      /\ FQCall(Unit, "cts_direct")
                      /\ UNCHANGED fixedQ
            /\ UNCHANGED << ret, exn, retVia >>
  /\ encMemo' = FreshMemo
  /\ UNCHANGED << uiVars, settingVars, itemVars, encVars, ctsVars, fitVars, histVars,
                  hits >>

\* Lines 345-358: the item is done.
Finish(b, q, sc) ==
  /\ status' = "done"
  /\ webpSize' = b.size
  /\ usedQualityPct' = RoundPct(q)
  /\ usedScalePct' = RoundPct(sc)
  /\ error' = error
  /\ pc' = "settled"
  /\ exn' = exn

\* Lines 324/327 and 343-358: the single encode of modes auto and quality.
OneEncode ==
  /\ pc = "one_enc"
  /\ \E out \in Outcomes(FreshMemo, chosenQ) :
       /\ Probed(chosenQ, Unit, out)
       /\ encMemo' = Remember(FreshMemo, chosenQ, out)
       /\ blob' = IF out = Fail THEN NoBlob ELSE Blob(out, chosenQ, Unit)
       /\ IF out = Fail
          THEN /\ pc' = "one_catch"
               /\ exn' = "Failed to convert to WEBP"
               /\ UNCHANGED itemVars
          ELSE Finish(Blob(out, chosenQ, Unit), chosenQ, chosenScale)
  /\ UNCHANGED << uiVars, settingVars, encVars, caller, canvas, argVars, searchVars,
                  ret, chosenQ, chosenScale, ctsVars, fitVars, anyFit, hits,
                  retVia >>

\* Lines 332-333 / 338-340 and 343-358: the search routine returned res.
OneFinish ==
  /\ pc = "one_ret"
  /\ blob' = ret.blob
  /\ chosenScale' = ret.scale
  /\ chosenQ' = IF mode = "size" THEN ret.q ELSE chosenQ
  /\ IF ret.blob = NoBlob
     THEN /\ pc' = "one_catch"
          /\ exn' = "Failed to convert to WEBP"
          /\ UNCHANGED itemVars
     ELSE Finish(ret.blob, IF mode = "size" THEN ret.q ELSE chosenQ, ret.scale)
  /\ UNCHANGED << uiVars, settingVars, encVars, encMemo, caller, canvas, argVars,
                  searchVars, ret, ctsVars, fitVars, histVars, anyFit, hits,
                  retVia >>

\* OneCatch leaving the status of the item as it is.
OneCatch_KeepsStatus ==
  /\ pc = "one_catch"
  /\ pc' = "settled"
  /\ UNCHANGED << uiVars, settingVars, itemVars,
                  encVars, encMemo, caller, canvas, argVars, searchVars,
                  ret, exn, oneVars, ctsVars, fitVars, histVars, anyFit,
                  hits, retVia >>

\* Lines 360-364: catch.
OneCatch ==
  /\ pc = "one_catch"
  /\ status' = "error"
  /\ error' = exn
  /\ pc' = "settled"
  /\ UNCHANGED << uiVars, settingVars, webpSize, usedQualityPct, usedScalePct,
                  encVars, encMemo, caller, canvas, argVars, searchVars,
                  ret, exn, oneVars, ctsVars, fitVars, histVars, anyFit,
                  hits, retVia >>

\* ------------------------------------------------------------------------
\* Specifications
\* ------------------------------------------------------------------------
Targets == {Max(1, k) : k \in MaxSizeKBChoices}

NoProbe == [q |-> 0, scale |-> 0]

\* Everything but the settings, the encoder and the position.
Blank ==
  /\ status = "idle" /\ webpSize = 0 /\ usedQualityPct = 0 /\ usedScalePct = 0
  /\ error = ""
  /\ encMemo = FreshMemo
  /\ canvas = Unit
  /\ fixedQ = 0
  /\ i = 0 /\ best = Null
  /\ ret = Null /\ exn = ""
  /\ chosenQ = AutoQ /\ chosenScale = Unit /\ blob = NoBlob
  /\ direct = Null /\ bestOverall = Null /\ sIdx = 0
  /\ first = NoBlob /\ fallback = Null
  /\ probeCount = 0 /\ lastProbe = NoProbe /\ anyFit = FALSE
  /\ encFailed = FALSE
  /\ minSize = 0 /\ minScale = Unit /\ hits = {} /\ retVia = ""
  /\ items = << >> /\ urls = {} /\ calls = {} /\ started = 0 /\ added = 0

\* One conversion of one item: the settings the user chose and the encoder
\* of the platform are drawn.
Init ==
  /\ mode \in Modes
  /\ qualityPct \in (IF mode \in {"quality", "both"}
                      THEN QualityPctChoices ELSE {90})
  /\ maxSizeKB \in (IF mode \in {"size", "both"}
                     THEN MaxSizeKBChoices ELSE {300})
  /\ allowUpscale \in (IF mode \in {"size", "both"} THEN BOOLEAN ELSE {TRUE})
  /\ encKind \in {"banded", "monotone"}
  /\ encFloor \in (IF encKind = "monotone" THEN Sizes ELSE {SizeStep})
  /\ pc = "idle" /\ caller = ""
  /\ target = 0 /\ allowUp = FALSE
  /\ low = 0 /\ high = 0
  /\ Blank

Next ==
  \/ ConvertOne
  \/ ImageLoaded
  \/ OneEncode
  \/ FQIter
  \/ UpIter
  \/ CTSDirect
  \/ CTSUp
  \/ CTSScale
  \/ CTSAttempt
  \/ CTSFallback
  \/ CTSEnd
  \/ FitFirst
  \/ FitUp
  \/ FitIter
  \/ FitAfter
  \/ FitFallback
  \/ FitEnd
  \/ OneFinish
  \/ OneCatch

Spec == Init /\ [][Next]_vars

\* For termination one setting per mode is drawn, with a cap (4 KB) that the
\* encoder's sizes lie on both sides of, and an encoder that may fail.
InitLive ==
  /\ Init
  /\ encKind = "banded"
  /\ qualityPct = 90
  /\ maxSizeKB \in {4, 300}
  /\ allowUpscale

\* Every image-load and encode callback eventually fires: the conversion
\* takes its next step whenever it has one.
LiveSpec == InitLive /\ [][Next]_vars /\ WF_vars(Next)

\* A findQualityForTargetKB call on its own, with its default bounds, on the
\* original canvas: the target and the encoder are drawn.  Here encFloor is
\* the size the canvas encodes to at quality 0.01.
InitFQ ==
  /\ mode = "size" /\ qualityPct = 90 /\ maxSizeKB = 300 /\ allowUpscale = TRUE
  /\ encKind \in {"free", "monotone"}
  /\ encFloor \in (IF encKind = "monotone" THEN Sizes ELSE {SizeStep})
  /\ pc = "fq" /\ caller = "fq_done"
  /\ target \in Targets /\ allowUp = FALSE
  /\ low = MinQ /\ high = MaxQ
  /\ Blank

NextFQ == FQIter

SpecFQ == InitFQ /\ [][NextFQ]_vars

\* ------------------------------------------------------------------------
\* The page: the item list, its buttons, and the convertOne calls in flight.
\* A call reads the settings of the render in which it was started (the
\* useCallback closure) and the item record it was given; what its image
\* load and its encoding give is drawn when the callback fires.  Result
\* object URLs are numbered by the call that creates them.
\* ------------------------------------------------------------------------
MaxItems == 2

MaxCalls == 3

\* The blob sizes a conversion of the page may give: the least and the
\* greatest of the encoder's.
UISizes == {SizeStep, MaxSizeSteps * SizeStep}

\* What the user types into the Max Size input.
UIMaxSizeKBChoices == {0}

\* Lines 51-58: the item pushed for a dropped PNG file.
NewItem(n) ==
  [id |-> n, status |-> "idle", webpUrl |-> 0, webpSize |-> 0, error |-> "",
   overCap |-> FALSE]

\* Line 309: prev.map(p => p.id === item.id ? {...p, status: "converting"} : p)
Converting(its, id) ==
  [k \in 1..Len(its) |->
     IF its[k].id = id
     THEN [its[k] EXCEPT !.status = "converting", !.error = ""]
     ELSE its[k]]

\* Lines 361-363: the catch of convertOne.
Errored(its, id, msg) ==
  [k \in 1..Len(its) |->
     IF its[k].id = id
     THEN [its[k] EXCEPT !.status = "error", !.error = msg]
     ELSE its[k]]

\* Lines 346-358: the updater after a successful conversion; url is the
\* object URL just created.  overCap records, for the claims, whether the
\* call had a cap (cap # 0) and its blob exceeds it.
Done(its, id, url, size, cap) ==
  [k \in 1..Len(its) |->
     IF its[k].id = id
     THEN [its[k] EXCEPT !.status = "done", !.webpUrl = url,
                         !.webpSize = size,
                         !.overCap = (cap # 0 /\ ~FitsKB(size, cap))]
     ELSE its[k]]

\* Line 349: the URLs that updater revokes.
Superseded(its, id, url) ==
  {its[k].webpUrl : k \in {j \in 1..Len(its) :
      its[j].id = id /\ its[j].webpUrl # 0 /\ its[j].webpUrl # url}}

\* Lines 329 and 336: the cap of a conversion begun in a render with mode m
\* and max size kb; 0 when the mode has none.
CapOf(m, kb) == IF m \in {"size", "both"} THEN Max(1, kb) ELSE 0

\* A convertOne(item) call with the cap of its closure; rest are the items
\* the awaiting convertAll loop has still to convert.
Call(c, id, cap, rest) ==
  [c |-> c, id |-> id, cap |-> cap, rest |-> rest]

\* Lines 370-375: the items a convertAll loop converts, read from the list
\* of the render in which the button was clicked.
Worklist(its) ==
  SelectSeq([k \in 1..Len(its) |-> its[k]], LAMBDA it : it.status # "done")

Ids(w) == [k \in 1..Len(w) |-> w[k].id]

\* Lines 44-63: PNG files are dropped or picked.
OnFiles ==
  /\ \E n \in 1..(MaxItems - added) :
       /\ items' = items \o [k \in 1..n |-> NewItem(added + k)]
       /\ added' = added + n
  /\ UNCHANGED << urls, calls, started, settingVars, engineVars >>

\* Lines 607-611 and 309: the Convert button of item k.
ClickConvert ==
  /\ started < MaxCalls
  /\ \E k \in 1..Len(items) :
       /\ items[k].status \notin {"converting", "done"}
       /\ items' = Converting(items, items[k].id)
       /\ calls' = calls \cup
                     {Call(started + 1, items[k].id, CapOf(mode, maxSizeKB),
                           << >>)}
  /\ started' = started + 1
  /\ UNCHANGED << urls, added, settingVars, engineVars >>

\* Lines 369-376 up to the first await.
ConvertAll ==
  /\ Len(items) > 0
  /\ LET w == Ids(Worklist(items)) IN
     /\ w # << >>
     /\ started + Len(w) <= MaxCalls
     /\ items' = Converting(items, Head(w))
     /\ calls' = calls \cup
                   {Call(started + 1, Head(w), CapOf(mode, maxSizeKB),
                         Tail(w))}
  /\ started' = started + 1
  /\ UNCHANGED << urls, added, settingVars, engineVars >>

\* Lines 378-385.
RemoveItem ==
  /\ \E k \in 1..Len(items) :
       /\ urls' = urls \ {items[k].webpUrl}
       /\ items' = SelectSeq(items, LAMBDA it : it.id # items[k].id)
  /\ UNCHANGED << calls, started, added, settingVars, engineVars >>

\* Lines 293-304.
ClearAll ==
  /\ Len(items) > 0
  /\ urls' = urls \ {items[k].webpUrl : k \in 1..Len(items)}
  /\ items' = << >>
  /\ UNCHANGED << calls, started, added, settingVars, engineVars >>

\* The call cl settled, leaving the list its and the live URLs us: an
\* awaiting convertAll loop goes on with its next item (lines 370-374).
Settle(cl, its, us) ==
  /\ urls' = us
  /\ IF cl.rest = << >>
     THEN /\ items' = its
          /\ calls' = calls \ {cl}
          /\ started' = started
     ELSE /\ items' = Converting(its, Head(cl.rest))
          /\ calls' = (calls \ {cl}) \cup
                        {Call(started + 1, Head(cl.rest), cl.cap,
                              Tail(cl.rest))}
          /\ started' = started + 1

\* Lines 310-364: the awaits of a call are over.  Its image failed to load,
\* or its encoding threw, or it gave a blob of some size.
CallSettled ==
  /\ \E cl \in calls :
       \/ \E msg \in {"Failed to load image", "Failed to convert to WEBP"} :
            Settle(cl, Errored(items, cl.id, msg), urls)
       \/ \E size \in UISizes :
            Settle(cl,
                   Done(items, cl.id, cl.c, size, cl.cap),
                   (urls \cup {cl.c}) \ Superseded(items, cl.id, cl.c))
  /\ UNCHANGED << added, settingVars, engineVars >>

\* Lines 650 and 657-659: the "could not reach target size" note of an item,
\* as the current render shows it.
Advisory(it) ==
  /\ it.status = "done"
  /\ mode \in {"size", "both"}
  /\ it.webpSize # 0
  /\ it.webpSize > 1024 * maxSizeKB

\* Line 451: the Mode select.
SetMode ==
  /\ \E m \in Modes : mode' = m
  /\ UNCHANGED << qualityPct, maxSizeKB, allowUpscale, engineVars, uiVars >>

\* Lines 493-496 and 536-539: the Max Size input, shown in the two size modes.
SetMaxSizeKB ==
  /\ mode \in {"size", "both"}
  /\ \E kb \in UIMaxSizeKBChoices : maxSizeKB' = kb
  /\ UNCHANGED << mode, qualityPct, allowUpscale, engineVars, uiVars >>

\* The page after its first render: the useState defaults, no item.
InitUI ==
  /\ mode = "auto" /\ qualityPct = 90 /\ maxSizeKB = 300 /\ allowUpscale = TRUE
  /\ encKind = "banded" /\ encFloor = SizeStep
  /\ pc = "idle" /\ caller = ""
  /\ target = 0 /\ allowUp = FALSE
  /\ low = 0 /\ high = 0
  /\ Blank

NextUI ==
  \/ OnFiles
  \/ ClickConvert
  \/ ConvertAll
  \/ RemoveItem
  \/ ClearAll
  \/ SetMode
  \/ SetMaxSizeKB
  \/ CallSettled

SpecUI == InitUI /\ [][NextUI]_vars

\* ------------------------------------------------------------------------
\* Claims
\* ------------------------------------------------------------------------

\* A conversion in by-size mode whose convertToTargetSize call returned.
CTSReturned == mode = "size" /\ pc \in {"one_ret", "settled"} /\ retVia # ""

\* The downscale ladder of convertToTargetSize is running.
InLadder ==
  \/ pc \in {"cts_scale", "cts_attempt", "cts_fb", "cts_end"}
  \/ pc = "fq" /\ caller = "cts_attempt"

\* C1 (as claimed): with an encoder whose size is non-decreasing in quality,
\* if targetKB is at least the size the canvas encodes to at quality 0.01
\* (encFloor), findQualityForTargetKB with its default bounds returns a
\* non-null result whose size is <= targetKB.
C1_FloorTargetIsFound ==
  (pc = "fq_done" /\ encKind = "monotone" /\ FitsKB(encFloor, target))
    => (ret # Null /\ FitsKB(ret.blob.size, target))

\* C2: findQualityForTargetKB returns null if and only if no probe of the
\* call produced a blob of size <= targetKB, and a non-null result has size
\* <= targetKB, whatever the encoder does.
C2_NullIffNoProbeFits ==
  pc = "fq_done" =>
    /\ (ret = Null) <=> ~anyFit
    /\ ret # Null => FitsKB(ret.blob.size, target)

\* C2 witness: a non-null result, under a free encoder, where the last probe
\* of the call was not the accepted one (it missed the cap or failed).
C2_Witness ==
  /\ pc = "fq_done"
  /\ encKind = "free"
  /\ ret # Null
  /\ lastProbe.q # ret.q

\* C3: in by-size mode, when no encode call fails, convertToTargetSize never
\* throws and the conversion ends done with a blob, for every targetKB; when
\* targetKB is below the floor of the encoder (its size at quality 0.01 and
\* scale 0.10, the least it produces), the result has size > targetKB.
C3_BySizeAlwaysReturns ==
  (mode = "size" /\ ~encFailed) =>
    /\ exn \notin {"Failed to create WEBP", "Failed to convert to WEBP"}
    /\ pc = "one_ret" => ret.blob # NoBlob
    /\ (pc = "settled" /\ exn = "") => (status = "done" /\ webpSize > 0)
    /\ (CTSReturned /\ ~FitsKB(encFloor, target))
         => ~FitsKB(ret.blob.size, target)

\* C3 witness: a by-size conversion is done, no encode call failed, and the
\* target was below the floor: the ladder's fallback was returned.
C3_Witness ==
  /\ mode = "size"
  /\ pc = "settled"
  /\ status = "done"
  /\ ~encFailed
  /\ ~FitsKB(encFloor, target)
  /\ retVia = "fallback"
  /\ ~FitsKB(webpSize, target)

\* C4 (as claimed): in mode "both" the size of the output never exceeds the
\* cap max(1, maxSizeKB).  Stated for a platform where no canvas or encode
\* call fails and the encoder is monotone in quality: it fails there already.
C4_BothNeverExceedsCap ==
  (encKind = "monotone" /\ mode = "both" /\ status = "done")
    => FitsKB(webpSize, Max(1, maxSizeKB))

\* C5 (as claimed): in by-size mode, when no probe met the cap, no encode
\* probe of the conversion produced a blob strictly smaller than the one
\* returned.  Stated for a platform where no canvas or encode call fails and
\* the encoder is monotone in quality: it fails there already.
C5_ReturnsSmallestProbed ==
  (encKind = "monotone" /\ CTSReturned /\ ~FitsKB(minSize, target))
    => ret.blob.size <= minSize

\* C6: every non-null result of upscaleToTargetWithFixedQuality has size
\* <= targetKB, the fixed quality passed in (also as the quality its blob was
\* encoded at) and a scale within [1, maxScale], whatever the encoder does.
C6_UpscaleResultUnderCap ==
  (pc \in {"cts_up", "fit_up"} /\ ret # Null) =>
    /\ FitsKB(ret.blob.size, target)
    /\ ret.q = fixedQ
    /\ ret.blob.q = fixedQ
    /\ Unit <= ret.scale /\ ret.scale <= MaxScale
    /\ ret.blob.scale = ret.scale

\* C6 witness: the upscale search returned a result above scale 1 after a
\* later probe, at another scale, was not accepted.
C6_Witness ==
  /\ pc \in {"cts_up", "fit_up"}
  /\ ret # Null
  /\ ret.scale > Unit
  /\ lastProbe.scale # ret.scale

\* The quality a conversion in mode "quality" or "both" uses:
\* qualityPct / 100 clamped to [0.01, 1].
UserQ ==
  LET q == qualityPct * 40960
  IN  IF q < 40960 THEN 40960 ELSE IF q > 100 * 40960 THEN 100 * 40960 ELSE q

\* C7: in one call of fitToSizeWithFixedQuality every encode probe is made
\* at the fixed quality passed in, and the result has that quality (as q and
\* as the quality its blob was encoded at) on every return path.
C7_FitKeepsQuality ==
  mode = "both" =>
    /\ probeCount > 0 => lastProbe.q = UserQ
    /\ pc \in {"up", "fit_search"} /\ best # Null
         => (best.q = UserQ /\ best.blob.q = UserQ)
    /\ retVia # "" => (ret.q = UserQ /\ ret.blob.q = UserQ)

\* C7 witness: fitToSizeWithFixedQuality returned the smallest blob of its
\* coarse sweep, at a scale below 1.
C7_Witness ==
  /\ mode = "both"
  /\ pc = "settled"
  /\ status = "done"
  /\ retVia = "fallback"
  /\ ret.scale < Unit

\* C8: a conversion in mode "auto" makes exactly one encode call, at quality
\* 0.90 on the unscaled canvas; one in mode "quality" exactly one, at the
\* user's quality on the unscaled canvas; neither runs a search and the
\* reported scale is 100%.
C8_SingleEncode ==
  mode \in {"auto", "quality"} =>
    LET q == IF mode = "auto" THEN 900 * 4096 ELSE UserQ IN
    /\ pc \in {"idle", "load", "one_enc", "one_catch", "settled"}
    /\ retVia = ""
    /\ probeCount <= 1
    /\ probeCount = 1 => lastProbe = [q |-> q, scale |-> Unit]
    /\ status = "done" =>
         /\ probeCount = 1
         /\ blob.q = q /\ blob.scale = Unit
         /\ usedScalePct = 100
         /\ usedQualityPct = (IF mode = "auto" THEN 90 ELSE qualityPct)

\* C8 witness: a conversion in mode "quality" at 1% is done.
C8_Witness ==
  /\ mode = "quality"
  /\ qualityPct = 1
  /\ status = "done"
  /\ probeCount = 1

\* C9: in by-size mode, when the quality search on the original canvas
\* succeeded the result is never downscaled: its scale is 1, unless upscaling
\* is allowed, the found quality is >= 0.95 and the result is more than
\* 2 KB under the cap, and then it is >= 1; the ladder runs only when that
\* search returned null.
C9_DirectNeverDownscaled ==
  mode = "size" =>
    /\ InLadder => direct = Null
    /\ (CTSReturned /\ direct # Null) =>
         /\ ret.scale >= Unit
         /\ minScale >= Unit
         /\ ret.scale # Unit =>
              /\ allowUpscale
              /\ direct.q >= 950 * 4096
              /\ 1024 * target - direct.blob.size > 2048
    /\ (CTSReturned /\ direct = Null) => retVia \in {"attempt", "fallback", "last"}

\* C9 witness: the quality search succeeded and the upscale search returned
\* a scale above 1.
C9_Witness ==
  /\ CTSReturned
  /\ direct # Null
  /\ retVia = "up"
  /\ ret.scale > Unit

\* The ladder returned a result that meets the cap.
LadderMetCap ==
  /\ CTSReturned
  /\ retVia \in {"attempt", "fallback"}
  /\ FitsKB(ret.blob.size, target)

\* The result's scale is the largest ladder scale at which the quality search
\* returned non-null, and no smaller scale was probed.
LargestHitReturned ==
  /\ hits # {}
  /\ \A s \in hits : s <= ret.scale
  /\ ret.scale \in hits
  /\ minScale >= ret.scale

\* C10 (as claimed): when the downscale ladder returns a result that meets
\* the cap, its scale is the largest ladder scale at which
\* findQualityForTargetKB returned non-null, and no smaller ladder scale is
\* probed.
C10_LadderLargestScale == LadderMetCap => LargestHitReturned

\* C10 (amended): when the downscale ladder returns the result of a
\* findQualityForTargetKB call, that result meets the cap, its scale is the
\* largest ladder scale at which the call returned non-null and no smaller
\* ladder scale is probed; with an encoder that never fails and whose size is
\* non-decreasing in quality this is the only way the ladder meets the cap.
C10_LadderLargestScaleOfSearch ==
  /\ (CTSReturned /\ retVia = "attempt")
       => (FitsKB(ret.blob.size, target) /\ LargestHitReturned)
  /\ (encKind = "monotone" /\ LadderMetCap) => retVia = "attempt"

\* C10 witness: the ladder returned a quality-search result below scale
\* 0.95, after scales where the search returned null.
C10_Witness ==
  /\ LadderMetCap
  /\ retVia = "attempt"
  /\ ret.scale < Milli(950)
  /\ direct = Null

\* C11: a done item shows the "could not reach target size" note if and only
\* if it was converted in by-size or quality+size mode and its encoded size
\* exceeds the cap that was in force for its conversion, whatever settings
\* changes came since.
C11_AdvisoryIffOverCap ==
  \A k \in 1..Len(items) :
    items[k].status = "done" => (Advisory(items[k]) <=> items[k].overCap)

\* C12: conversions never overlap: at every moment at most one item has
\* status "converting" and at most one convertOne call is in flight.
C12_NoOverlap ==
  /\ Cardinality({k \in 1..Len(items) : items[k].status = "converting"}) <= 1
  /\ Cardinality(calls) <= 1

\* Every search loop is within its iteration count and every sweep within
\* its list of scales; i and sIdx count the probes made.
SearchBounded ==
  /\ pc = "fq" => i < Iterations
  /\ pc = "up" => i < UpIterations
  /\ pc = "fit_search" => i < FitIterations
  /\ pc \in {"cts_scale", "cts_attempt", "cts_fb"} => sIdx <= Len(scales)
  /\ pc = "fit_fb" => sIdx <= Len(fitScales)

\* C13: when every callback eventually fires, an item whose status became
\* "converting" eventually has status "done" or "error", and each search
\* routine makes a bounded number of probes.
C13_ConversionSettles ==
  /\ (status = "converting") ~> (status \in {"done", "error"})
  /\ []SearchBounded

\* A by-size conversion that went through the whole ladder and settled.
C13_Witness ==
  /\ pc = "settled"
  /\ status = "done"
  /\ mode = "size"
  /\ retVia = "fallback"

\* C14: every result object URL created and not yet revoked is the webpUrl
\* of an item currently in the list, also after an item was removed or the
\* list cleared while a conversion was in flight.
C14_LiveUrlsAreOwned ==
  urls \subseteq {items[k].webpUrl : k \in 1..Len(items)}

\* The iteration count of the search loop at position p.
LoopLimit(p) ==
  IF p = "fq" THEN Iterations
  ELSE IF p = "up" THEN UpIterations ELSE FitIterations

\* C15: in the search loops a single failed encode is an unusable candidate
\* and the routine goes on with its remaining iterations: a step whose encode
\* call gives null (the first of the conversion to do so), with iterations
\* left, leaves the routine in its loop.
C15_FailedProbeContinues ==
  [][(/\ pc \in {"fq", "up", "fit_search"}
      /\ ~encFailed
      /\ encFailed'
      /\ i + 1 < LoopLimit(pc)) => pc' = pc]_vars

\* A conversion in mode "both" that is in, or back from, its
\* fitToSizeWithFixedQuality call.
InFit ==
  /\ mode = "both"
  /\ pc \in {"fit_first", "fit_up", "fit_search", "fit_after", "fit_fb",
             "fit_end", "up", "one_ret"}

\* C16: in mode "both" upscaling is forced on: the allowUp that the fit
\* routine runs with is the one it would run with had the user's switch the
\* other position, and it is on; the routine reads nothing else of the
\* switch, so the two conversions make the same probes and return the same.
C16_BothForcesUpscale ==
  InFit => /\ allowUp
           /\ allowUp = BothAllowUp(allowUpscale)
           /\ allowUp = BothAllowUp(~allowUpscale)

\* With the switch off, mode "both" returned an upscaled result.
C16_Witness ==
  /\ InFit
  /\ ~allowUpscale
  /\ pc = "one_ret"
  /\ retVia = "up"
  /\ ret.scale > Unit

\* C17: in every mode and on every return path the blob handed back was
\* made by an encode call of the conversion, and the quality and scale
\* reported with it are those of that call (a Blob carries the quality and
\* the canvas scale of the toBlob call that made it).
C17_ResultIsItsEncode ==
  /\ (pc = "one_ret" /\ ret.blob # NoBlob) =>
        /\ probeCount >= 1
        /\ ret.blob.size >= minSize
        /\ ret.q = ret.blob.q
        /\ ret.scale = ret.blob.scale
  /\ (pc = "settled" /\ status = "done") =>
        /\ blob # NoBlob
        /\ probeCount >= 1
        /\ blob.size >= minSize
        /\ webpSize = blob.size
        /\ usedQualityPct = RoundPct(blob.q)
        /\ usedScalePct = RoundPct(blob.scale)

\* A by-size conversion done with a fallback blob of a scale below the
\* first of the ladder.
C17_Witness ==
  /\ pc = "settled"
  /\ status = "done"
  /\ mode = "size"
  /\ retVia = "fallback"
  /\ usedScalePct < 95
  /\ usedQualityPct = 35

\* C18: for any encoder, within one findQualityForTargetKB call the accepted
\* quality never falls: a probe that is accepted after another has a quality
\* at least as high, so the best returned is the highest-quality probe of
\* the call that fit, also once low and high have passed each other.
C18_BestNeverFalls ==
  [][(pc = "fq" /\ best # Null) =>
       IF pc' = "fq"
       THEN best'.q >= best.q
       ELSE ret' # Null /\ ret'.q >= best.q]_vars

\* C19: once an item has status "done" it is never converted again: no step
\* takes an item of the list from "done" to "converting".
C19_DoneStaysDone ==
  [][\A k \in 1..Len(items) :
       items[k].status = "done" =>
         \A j \in 1..Len(items') :
           items'[j].id = items[k].id => items'[j].status # "converting"]_vars

====
